---- MODULE Spec2Model ----
(***************************************************************************)
(* NexaAudit temple crowd dashboard (src/app.py): one Streamlit script,    *)
(* re-run on every interaction, over one CSV file, temple_pulse.csv.       *)
(*                                                                         *)
(* The store is modelled as the file itself: a header line and lines of    *)
(* cell TEXTS.  A DataFrame is modelled as column names and rows of TYPED  *)
(* cells.  pd.read_csv turns texts into typed cells (column-wise type      *)
(* inference, NA detection) and DataFrame.to_csv turns typed cells back    *)
(* into texts; neither is the identity.                                    *)
(***************************************************************************)
EXTENDS Integers, Sequences, FiniteSets, TLC

(***************************************************************************)
(* Bounds of the model.                                                    *)
(***************************************************************************)
MaxRows == 4
MaxAlertRows == 11
MaxFlagged == 2
MaxConcSubmits == 3
NumSessions == 2

(***************************************************************************)
(* Program constants.                                                      *)
(***************************************************************************)
TEMPLES == <<"Somnath", "Dwarka", "Ambaji", "Pavagadh">>

COLUMNS ==
  <<"timestamp", "temple", "zone", "visitor_count", "queue_time",
    "top_services", "payment_modes", "crowd_index", "peak_hour_flag">>

PAGES ==
  <<"Submit Pilgrim Pulse", "Temple Overview", "Crowd Alerts",
    "Pilgrim Info", "Export Records", "Recent Logs">>

MinAlertRows == 10
SliderMin == 0
SliderMax == 10
NumberMin == 0
MetricDecimals == 2

Range(s) == {s[i] : i \in DOMAIN s}

(***************************************************************************)
(* Typed cells of a DataFrame.                                             *)
(***************************************************************************)
StrCell(s)   == [t |-> "str",   s |-> s,  n |-> 0, b |-> FALSE]
IntCell(n)   == [t |-> "int",   s |-> "", n |-> n, b |-> FALSE]
FloatCell(n) == [t |-> "float", s |-> "", n |-> n, b |-> FALSE]
BoolCell(b)  == [t |-> "bool",  s |-> "", n |-> 0, b |-> b]
TimeCell(n)  == [t |-> "time",  s |-> "", n |-> n, b |-> FALSE]
NaN          == [t |-> "nan",   s |-> "", n |-> 0, b |-> FALSE]

(***************************************************************************)
(* Texts.  The numbers the model can parse lie in NumRange; "007" stands   *)
(* for the zero-padded digit strings a user can type into a text input.    *)
(***************************************************************************)
NumRange == -1 .. 12

TimeText(n) == "2025-01-01 00:00:0" \o ToString(n)

IntText(n) == ToString(n)

FloatText(n) == ToString(n) \o ".0"

IntTexts == {IntText(n) : n \in NumRange}

FloatTexts == {FloatText(n) : n \in NumRange}

IsIntText(s) == s = "007" \/ s \in IntTexts

IsFloatText(s) == s \in FloatTexts

NumTable ==
  [s \in IntTexts \cup FloatTexts \cup {"007"} |->
     IF s = "007" THEN 7
     ELSE CHOOSE n \in NumRange : IntText(n) = s \/ FloatText(n) = s]

NumOf(s) == NumTable[s]

\* pandas' default na_values (STR_NA_VALUES), as every pandas version has them.
NAValues ==
  {"", "#N/A", "#N/A N/A", "#NA", "-1.#IND", "-1.#QNAN", "-NaN", "-nan",
   "1.#IND", "1.#QNAN", "<NA>", "N/A", "NA", "NULL", "NaN", "n/a", "nan",
   "null"}

IsNA(s) == s \in NAValues

IsBoolText(s) == s \in {"True", "False"}

(***************************************************************************)
(* DataFrame.to_csv(index=False): the text of one typed cell.              *)
(***************************************************************************)
CellText(c) ==
  CASE c.t = "str"   -> c.s
    [] c.t = "int"   -> IntText(c.n)
    [] c.t = "float" -> FloatText(c.n)
    [] c.t = "bool"  -> (IF c.b THEN "True" ELSE "False")
    [] c.t = "time"  -> TimeText(c.n)
    [] c.t = "nan"   -> ""

\* bool(c), as in "if row[...]:".
Truthy(c) ==
  CASE c.t = "bool"  -> c.b
    [] c.t = "str"   -> c.s # ""
    [] c.t \in {"int", "float"} -> c.n # 0
    [] OTHER         -> TRUE

\* An f-string's text of a cell.
PyText(c) == IF c.t = "nan" THEN "nan" ELSE CellText(c)

(***************************************************************************)
(* The file: absent, or a CSV with a header and lines of cell texts.       *)
(* Quoting of cells that hold a comma is not modelled: to_csv quotes them  *)
(* and read_csv unquotes them, so cell boundaries are kept.                *)
(***************************************************************************)
AbsentFile == [state |-> "absent", header |-> <<>>, lines |-> <<>>]

(***************************************************************************)
(* A DataFrame: its column names and its rows, each row the typed cells in *)
(* column order.                                                           *)
(***************************************************************************)
EmptyFrame == [columns |-> COLUMNS, rows |-> <<>>]

\* A sequence given as a function over 1..n, computed once.
Eager(s) == <<>> \o s

ColIndex(columns, c) == CHOOSE k \in 1..Len(columns) : columns[k] = c

\* row[c], for a row of the frame df.
Cell(df, row, c) == row[ColIndex(df.columns, c)]

to_csv(df) ==
  [state  |-> "csv",
   header |-> df.columns,
   lines  |-> Eager([i \in 1..Len(df.rows) |->
                 Eager([j \in 1..Len(df.columns) |-> CellText(df.rows[i][j])])])]

(***************************************************************************)
(* pd.read_csv: the dtype of a column is inferred from all its texts.      *)
(***************************************************************************)
ColumnTexts(f, j) == {f.lines[i][j] : i \in 1..Len(f.lines)}

ColumnKind(texts) ==
  LET present == {s \in texts : ~IsNA(s)} IN
  CASE present = {}                                         -> "float"
    [] present # {} /\ \A s \in present : IsIntText(s)      ->
         (IF present = texts THEN "int" ELSE "float")
    [] present # {} /\ (\A s \in present : IsIntText(s) \/ IsFloatText(s))
                    /\ (\E s \in present : ~IsIntText(s))   -> "float"
    [] present # {} /\ present = texts
                    /\ (\A s \in present : IsBoolText(s))   -> "bool"
    [] OTHER                                                -> "object"

ParseCell(kind, s) ==
  IF IsNA(s) THEN NaN
  ELSE CASE kind = "int"    -> IntCell(NumOf(s))
         [] kind = "float"  -> FloatCell(NumOf(s))
         [] kind = "bool"   -> BoolCell(s = "True")
         [] kind = "object" -> StrCell(s)

read_csv(f) ==
  LET kinds == Eager([j \in 1..Len(f.header) |-> ColumnKind(ColumnTexts(f, j))])
  IN  [columns |-> f.header,
       rows    |-> Eager([i \in 1..Len(f.lines) |->
                     Eager([j \in 1..Len(f.header) |-> ParseCell(kinds[j], f.lines[i][j])])])]

\* A load_data whose read_csv always fails (a wrong path): the bare except
\* hides it.
load_data_unreadable(f) == EmptyFrame

\* load_data: any failure of read_csv (no file) gives the empty frame.
load_data(f) == IF f.state = "csv" THEN read_csv(f) ELSE EmptyFrame

save_data(df) == to_csv(df)

(***************************************************************************)
(* The submission form (pulse_form) and the row it produces.               *)
(***************************************************************************)
PAYMENT_OPTIONS == <<"Cash", "Card", "UPI", "Wallet">>

RECURSIVE Join(_)
Join(modes) ==
  IF modes = <<>> THEN ""
  ELSE IF Len(modes) = 1 THEN modes[1]
  ELSE modes[1] \o "," \o Join(Tail(modes))

Form(temple, zone, visitors, queue, services, modes, crowd, peak) ==
  [temple |-> temple, zone |-> zone, visitor_count |-> visitors,
   queue_time |-> queue, top_services |-> services, payment_modes |-> modes,
   crowd_index |-> crowd, peak_hour_flag |-> peak]

\* Number inputs without min_value.
WidgetsAcceptNoMin(f) ==
  /\ f.temple \in Range(TEMPLES)
  /\ f.crowd_index \in SliderMin..SliderMax
  /\ Range(f.payment_modes) \subseteq Range(PAYMENT_OPTIONS)

\* What the widgets let through: selectbox over TEMPLES, number_input with
\* min_value=0, slider 0..10, multiselect over PAYMENT_OPTIONS, free texts.
WidgetsAccept(f) ==
  /\ f.temple \in Range(TEMPLES)
  /\ f.visitor_count >= NumberMin
  /\ f.queue_time >= NumberMin
  /\ f.crowd_index \in SliderMin..SliderMax
  /\ Range(f.payment_modes) \subseteq Range(PAYMENT_OPTIONS)

\* The form contents tried by the model: every temple, the untouched form,
\* texts that read_csv does not read back as typed, the slider's ends, and
\* three contents outside the widgets' ranges.
FormCandidates ==
  {Form("Somnath", "Gate", 5, 7, "Prasad", <<"Cash">>, 1, FALSE),
   Form("Somnath", "Gate", 5, 7, "Prasad", <<"Cash", "UPI">>, 2, TRUE),
   Form("Somnath", "", 0, 0, "", <<>>, 0, FALSE),
   Form("Ambaji", "N/A", 0, 0, "NA", <<>>, 0, FALSE),
   Form("Pavagadh", "007", 0, 0, "Prasad", <<"Card">>, 0, FALSE),
   Form("Dwarka", "Exit", 12, 0, "Prasad", <<"UPI">>, 10, TRUE),
   Form("Somnath", "Gate", -1, 7, "Prasad", <<"Cash">>, 1, FALSE),
   Form("Somnath", "Gate", 5, -1, "Prasad", <<"Cash">>, 1, FALSE),
   Form("Somnath", "Gate", 5, 7, "Prasad", <<"Cash">>, 11, FALSE)}

FormInputs == {f \in FormCandidates : WidgetsAccept(f)}

\* The pulses submitted on top of the seeded store of SpecAlerts.
AlertInputs == {f \in FormInputs : f.zone = "Exit"}

new_entry(f, now) ==
  LET entry == [timestamp      |-> TimeCell(now),
                temple         |-> StrCell(f.temple),
                zone           |-> StrCell(f.zone),
                visitor_count  |-> IntCell(f.visitor_count),
                queue_time     |-> IntCell(f.queue_time),
                top_services   |-> StrCell(f.top_services),
                payment_modes  |-> StrCell(Join(f.payment_modes)),
                crowd_index    |-> IntCell(f.crowd_index),
                peak_hour_flag |-> BoolCell(f.peak_hour_flag)]
  IN  [columns |-> COLUMNS,
       rows    |-> << Eager([j \in 1..Len(COLUMNS) |-> entry[COLUMNS[j]]]) >>]

\* pd.concat([a, b], ignore_index=True): a's rows, then b's; a column one
\* frame lacks is filled with NaN.
concat(a, b) ==
  LET cols == a.columns \o SelectSeq(b.columns, LAMBDA c : c \notin Range(a.columns))
      fill(df, r) == Eager([j \in 1..Len(cols) |->
                       IF cols[j] \in Range(df.columns) THEN Cell(df, r, cols[j]) ELSE NaN])
  IN  [columns |-> cols,
       rows    |-> Eager([i \in 1..(Len(a.rows) + Len(b.rows)) |->
                      IF i <= Len(a.rows) THEN fill(a, a.rows[i])
                      ELSE fill(b, b.rows[i - Len(a.rows)])])]

\* Lines 73-86: the file after one submission.
Submitted(f, form, now) == save_data(concat(load_data(f), new_entry(form, now)))

RowCount(f) == Len(f.lines)

(***************************************************************************)
(* State.                                                                  *)
(***************************************************************************)
VARIABLES
  file,       \* temple_pulse.csv
  clock,      \* datetime.datetime.now(), in ticks
  page,       \* the sidebar's page of the last script run
  pc,         \* where the script is: "idle" (a run is over, its output is on
              \* the screen), "run" (the sidebar is drawn, the page's branch is
              \* next), "rerun" (st.experimental_rerun() restarted the script),
              \* "alerting" (inside the Crowd Alerts loop)
  data,       \* the running script's DataFrame (Crowd Alerts)
  todo,       \* the flagged rows the Crowd Alerts loop has still to visit
  view,       \* what the last script run put on the screen
  lastAlert,  \* the row of the latest send attempt of an earlier run, 0 if none
  spc,        \* concurrent sessions: where each one's submission is
  sframe,     \* concurrent sessions: each one's form and DataFrames
  reported    \* the ticks of the submissions that showed the success message

vars == <<file, clock, page, pc, data, todo, view, lastAlert, spc, sframe, reported>>

\* The state of the single session of Spec and SpecAlerts, and of the
\* sessions of SpecConc.
single == <<page, pc, data, todo, view, lastAlert>>

sessions == <<spc, sframe, reported>>

Sessions == 1..NumSessions

NoFrame == [form |-> <<>>, data |-> EmptyFrame, updated |-> EmptyFrame, tick |-> 0]

NoView == [kind |-> "none"]

\* The latest send attempt once the run shown in view is over.
Remembered ==
  IF view.kind = "alerts" /\ view.outcomes # <<>>
  THEN view.outcomes[Len(view.outcomes)].row
  ELSE lastAlert

\* The end of a script run: v is on the screen.
Show(v) ==
  /\ view' = v
  /\ pc' = "idle"
  /\ UNCHANGED <<page, data, todo, lastAlert>>

Init ==
  /\ file = AbsentFile
  /\ clock = 0
  /\ page = PAGES[1]
  /\ pc = "idle"
  /\ data = EmptyFrame
  /\ todo = <<>>
  /\ view = NoView
  /\ lastAlert = 0
  /\ spc = [s \in Sessions |-> "idle"]
  /\ sframe = [s \in Sessions |-> NoFrame]
  /\ reported = {}

(***************************************************************************)
(* Lines 52-56: an interaction starts the script again; the screen of the  *)
(* run before is dropped and the sidebar gives the page.                   *)
(***************************************************************************)
Rerun ==
  /\ pc = "idle"
  /\ \E p \in Range(PAGES) : page' = p
  /\ pc' = "run"
  /\ view' = NoView
  /\ lastAlert' = Remembered
  /\ UNCHANGED <<file, clock, data, todo, sessions>>

(***************************************************************************)
(* Page 1, Submit Pilgrim Pulse.                                           *)
(***************************************************************************)
\* The form is drawn and "Submit Pulse" was not pressed.
ViewForm ==
  /\ pc \in {"run", "rerun"}
  /\ page = PAGES[1]
  /\ Show([kind |-> "form", submitted |-> FALSE])
  /\ UNCHANGED <<file, clock, sessions>>

\* "Submit Pulse" was pressed with the form holding `form`; the run ends in
\* st.experimental_rerun().
SubmitPulse(cap, inputs) ==
  /\ pc = "run"
  /\ page = PAGES[1]
  /\ RowCount(file) < cap
  /\ \E form \in inputs :
       /\ file' = Submitted(file, form, clock + 1)
       /\ clock' = clock + 1
       /\ view' = [kind |-> "form", submitted |-> TRUE, form |-> form,
                   message |-> "Pulse submitted successfully."]
  /\ pc' = "rerun"
  /\ UNCHANGED <<page, data, todo, lastAlert, sessions>>

(***************************************************************************)
(* Page 2, Temple Overview.                                                *)
(***************************************************************************)
\* An overview that forgets the filter.
FilterTempleForgotten(df, temple) == df

\* data[data["temple"] == temple]
FilterTemple(df, temple) ==
  LET k == ColIndex(df.columns, "temple")
  IN  [columns |-> df.columns,
       rows    |-> SelectSeq(df.rows, LAMBDA r : r[k].t = "str" /\ r[k].s = temple)]

RECURSIVE SumCells(_, _)
SumCells(rows, k) ==
  IF rows = <<>> THEN 0 ELSE rows[1][k].n + SumCells(Tail(rows), k)

RECURSIVE Pow10(_)
Pow10(d) == IF d = 0 THEN 1 ELSE 10 * Pow10(d - 1)

\* round(x, d) of the non-negative x = num / den, in units of 10^-d: the
\* nearest one, a tie going to the even one.
RoundHalfEven(num, den, d) ==
  LET scaled == num * Pow10(d)
      q == scaled \div den
      r == scaled % den
  IN  IF 2 * r < den THEN q
      ELSE IF 2 * r > den THEN q + 1
      ELSE IF q % 2 = 0 THEN q ELSE q + 1

\* round(filtered[c].mean(), 2): NaN over no rows.
Metric(df, c) ==
  IF df.rows = <<>> THEN [nan |-> TRUE, hundredths |-> 0]
  ELSE [nan |-> FALSE,
        hundredths |-> RoundHalfEven(SumCells(df.rows, ColIndex(df.columns, c)),
                                     Len(df.rows), MetricDecimals)]

TempleOverview ==
  /\ pc = "run"
  /\ page = PAGES[2]
  /\ \E temple \in Range(TEMPLES) :
       LET filtered == FilterTemple(load_data(file), temple) IN
       Show(
            [kind    |-> "overview",
             temple  |-> temple,
             crowd   |-> Metric(filtered, "crowd_index"),
             queue   |-> Metric(filtered, "queue_time"),
             bars    |-> Eager([i \in 1..Len(filtered.rows) |->
                            <<Cell(filtered, filtered.rows[i], "zone"),
                              Cell(filtered, filtered.rows[i], "visitor_count")>>]),
             markers |-> Len(filtered.rows)])
  /\ UNCHANGED <<file, clock, sessions>>

(***************************************************************************)
(* Pages 4 and 6 sort by the timestamp column, newest first.  Timestamp    *)
(* texts have one fixed width, so their order is the order of the ticks.   *)
(***************************************************************************)
HeadLogs == 20

Ticks == 0..(MaxRows + MaxAlertRows + MaxConcSubmits + 3)

TickTable == [s \in {TimeText(n) : n \in Ticks} |-> CHOOSE n \in Ticks : TimeText(n) = s]

TickOf(cell) == IF cell.t = "time" THEN cell.n ELSE TickTable[cell.s]

RECURSIVE SortNewestFirst(_, _)
SortNewestFirst(rows, k) ==
  IF rows = <<>> THEN <<>>
  ELSE LET m == CHOOSE i \in 1..Len(rows) :
                  \A j \in 1..Len(rows) : TickOf(rows[j][k]) <= TickOf(rows[i][k])
           rest == Eager([i \in 1..(Len(rows) - 1) |->
                            IF i < m THEN rows[i] ELSE rows[i + 1]])
       IN  <<rows[m]>> \o SortNewestFirst(rest, k)

\* df.sort_values("timestamp", ascending=False)
sort_values(df) ==
  [columns |-> df.columns,
   rows    |-> SortNewestFirst(df.rows, ColIndex(df.columns, "timestamp"))]

FirstRows(rows, n) == SubSeq(rows, 1, IF Len(rows) < n THEN Len(rows) ELSE n)

PilgrimInfo ==
  /\ pc = "run"
  /\ page = PAGES[4]
  /\ \E temple \in Range(TEMPLES) :
       LET sorted == sort_values(FilterTemple(load_data(file), temple))
           latest == FirstRows(sorted.rows, 1)
       IN
       Show(
            IF latest = <<>>
            THEN [kind |-> "info", temple |-> temple, empty |-> TRUE]
            ELSE [kind |-> "info", temple |-> temple, empty |-> FALSE,
                  crowd    |-> Cell(sorted, latest[1], "crowd_index"),
                  queue    |-> PyText(Cell(sorted, latest[1], "queue_time")) \o " mins",
                  services |-> PyText(Cell(sorted, latest[1], "top_services")),
                  payments |-> PyText(Cell(sorted, latest[1], "payment_modes")),
                  peak     |-> Truthy(Cell(sorted, latest[1], "peak_hour_flag"))])
  /\ UNCHANGED <<file, clock, sessions>>

\* A Recent Logs page that writes the sorted frame back.
RecentLogsSaving ==
  /\ pc = "run"
  /\ page = PAGES[6]
  /\ file' = save_data(sort_values(load_data(file)))
  /\ Show([kind |-> "logs",
           rows |-> FirstRows(sort_values(load_data(file)).rows, HeadLogs)])
  /\ UNCHANGED <<clock, sessions>>

RecentLogs ==
  /\ pc = "run"
  /\ page = PAGES[6]
  /\ Show(
          [kind |-> "logs",
           rows |-> FirstRows(sort_values(load_data(file)).rows, HeadLogs)])
  /\ UNCHANGED <<file, clock, sessions>>

(***************************************************************************)
(* Page 5, Export Records.  The CSV download is the text of the loaded     *)
(* frame; the Excel sheet holds the frame's typed cells.                   *)
(***************************************************************************)
to_excel(df) == [header |-> df.columns, cells |-> df.rows]

ExportRecords ==
  /\ pc = "run"
  /\ page = PAGES[5]
  /\ \E format \in {"CSV", "Excel"} :
       LET df == load_data(file) IN
       Show(
            IF format = "CSV"
            THEN [kind |-> "export", format |-> format, csv |-> to_csv(df)]
            ELSE [kind |-> "export", format |-> format, sheet |-> to_excel(df)])
  /\ UNCHANGED <<file, clock, sessions>>

(***************************************************************************)
(* Page 3, Crowd Alerts.                                                   *)
(***************************************************************************)
\* What IsolationForest(contamination=0.1).fit_predict may answer for n rows:
\* the forest is random (no random_state), so any rows may be flagged; the
\* model bounds how many.
RECURSIVE FlagSets(_, _)
FlagSets(n, k) ==
  IF k = 0 THEN {{}}
  ELSE LET less == FlagSets(n, k - 1)
       IN  less \cup {S \cup {i} : S \in less, i \in 1..n}

\* data[["visitor_count", "queue_time", "crowd_index"]]
Features(df) ==
  Eager([i \in 1..Len(df.rows) |->
     <<Cell(df, df.rows[i], "visitor_count"), Cell(df, df.rows[i], "queue_time"),
       Cell(df, df.rows[i], "crowd_index")>>])

\* data["anomaly"] = predictions
WithAnomaly(df, flagged) ==
  [columns |-> Append(df.columns, "anomaly"),
   rows    |-> Eager([i \in 1..Len(df.rows) |->
                  Append(df.rows[i], IntCell(IF i \in flagged THEN -1 ELSE 1))])]

\* data[data["anomaly"] == -1], as the row numbers in frame order.
RECURSIVE AlertRows(_, _)
AlertRows(df, i) ==
  IF i > Len(df.rows) THEN <<>>
  ELSE (IF Cell(df, df.rows[i], "anomaly") = IntCell(-1) THEN <<i>> ELSE <<>>)
       \o AlertRows(df, i + 1)

SmtpStages == {"connect", "login", "sendmail", "ok"}

\* A send_alert_email without the try/except: a failure leaves the page.
send_alert_email_uncaught(stage) ==
  [smtp    |-> 1,
   raised  |-> stage # "ok",
   message |-> IF stage = "ok" THEN "Alert dispatched to temple authorities."
               ELSE "Failed to send alert"]

\* send_alert_email: one SMTP_SSL connection; stage is where it ends.  Every
\* failure is an Exception and is caught.
send_alert_email(stage) ==
  [smtp    |-> 1,
   raised  |-> FALSE,
   message |-> IF stage = "ok" THEN "Alert dispatched to temple authorities."
               ELSE "Failed to send alert"]

\* len(data) <= 10
InsufficientOrEqual(n) == n <= MinAlertRows

\* len(data) < 10
Insufficient(n) == n < MinAlertRows

CrowdAlerts ==
  /\ pc = "run"
  /\ page = PAGES[3]
  /\ LET df == load_data(file)
         n  == Len(df.rows)
     IN  IF Insufficient(n)
         THEN /\ view' = [kind |-> "alerts", loaded |-> n, warning |-> TRUE,
                          fits |-> 0, features |-> <<>>, flagged |-> {},
                          outcomes |-> <<>>]
              /\ pc' = "idle"
              /\ data' = EmptyFrame
              /\ todo' = <<>>
         ELSE \E flagged \in FlagSets(n, MaxFlagged) :
                LET marked == WithAnomaly(df, flagged)
                    alerts == AlertRows(marked, 1)
                IN  /\ view' = [kind |-> "alerts", loaded |-> n, warning |-> FALSE,
                                fits |-> 1, features |-> Features(df),
                                flagged |-> flagged, outcomes |-> <<>>]
                    /\ todo' = alerts
                    /\ pc' = IF alerts = <<>> THEN "idle" ELSE "alerting"
                    /\ data' = IF alerts = <<>> THEN EmptyFrame ELSE marked
  /\ UNCHANGED <<file, clock, page, lastAlert, sessions>>

\* A loop that skips the row the latest earlier alert was about.
AlertSendDedup ==
  /\ pc = "alerting"
  /\ \E stage \in SmtpStages :
       LET i    == todo[1]
           sent == send_alert_email(stage)
           out  == [row |-> i, body |-> <<>>, smtp |-> sent.smtp, message |-> sent.message]
           rest == Tail(todo)
       IN  /\ view' = IF i = lastAlert THEN view
                      ELSE [view EXCEPT !.outcomes = Append(@, out)]
           /\ todo' = rest
           /\ pc' = IF rest = <<>> THEN "idle" ELSE "alerting"
           /\ data' = IF rest = <<>> THEN EmptyFrame ELSE data
  /\ UNCHANGED <<file, clock, page, lastAlert, sessions>>

\* One turn of "for _, row in alerts.iterrows()".
AlertSend ==
  /\ pc = "alerting"
  /\ \E stage \in SmtpStages :
       LET i    == todo[1]
           row  == data.rows[i]
           at(c) == Cell(data, row, c)
           sent == send_alert_email(stage)
           out  == [row |-> i,
                    body |-> <<PyText(at("temple")), PyText(at("zone")),
                               PyText(at("crowd_index")), PyText(at("queue_time"))>>,
                    smtp |-> sent.smtp,
                    message |-> sent.message]
           rest == IF sent.raised THEN <<>> ELSE Tail(todo)
       IN  /\ view' = [view EXCEPT !.outcomes = Append(@, out)]
           /\ todo' = rest
           /\ pc' = IF rest = <<>> THEN "idle" ELSE "alerting"
           /\ data' = IF rest = <<>> THEN EmptyFrame ELSE data
  /\ UNCHANGED <<file, clock, page, lastAlert, sessions>>

Next ==
  \/ Rerun
  \/ ViewForm
  \/ SubmitPulse(MaxRows, FormInputs)
  \/ TempleOverview
  \/ PilgrimInfo
  \/ ExportRecords
  \/ RecentLogs
  \/ CrowdAlerts

Spec == Init /\ [][Next]_vars

(***************************************************************************)
(* The dashboard started over a temple_pulse.csv that earlier runs left:   *)
(* the file after the submissions of SeedForms, one short of the rows      *)
(* Crowd Alerts asks for.                                                  *)
(***************************************************************************)
SeedForms ==
  << Form("Somnath", "Gate", 5, 7, "Prasad", <<"Cash">>, 1, FALSE),
     Form("Dwarka", "Exit", 12, 0, "Prasad", <<"UPI">>, 10, TRUE),
     Form("Somnath", "", 0, 0, "", <<>>, 0, FALSE),
     Form("Ambaji", "N/A", 0, 0, "NA", <<>>, 0, FALSE),
     Form("Somnath", "Gate", 5, 7, "Prasad", <<"Cash", "UPI">>, 2, TRUE),
     Form("Pavagadh", "007", 0, 0, "Prasad", <<"Card">>, 0, FALSE),
     Form("Somnath", "Gate", 5, 7, "Prasad", <<"Cash">>, 1, FALSE),
     Form("Dwarka", "Exit", 12, 0, "Prasad", <<"UPI">>, 10, TRUE),
     Form("Somnath", "Gate", 5, 7, "Prasad", <<"Cash">>, 1, FALSE) >>

RECURSIVE Replay(_, _, _)
Replay(f, forms, now) ==
  IF forms = <<>> THEN f
  ELSE Replay(Submitted(f, forms[1], now + 1), Tail(forms), now + 1)

SeedFile == Replay(AbsentFile, SeedForms, 0)

InitAlerts ==
  /\ file = SeedFile
  /\ clock = Len(SeedForms)
  /\ page = PAGES[1]
  /\ pc = "idle"
  /\ data = EmptyFrame
  /\ todo = <<>>
  /\ view = NoView
  /\ lastAlert = 0
  /\ spc = [s \in Sessions |-> "idle"]
  /\ sframe = [s \in Sessions |-> NoFrame]
  /\ reported = {}

NextAlerts ==
  \/ Rerun
  \/ ViewForm
  \/ SubmitPulse(MaxAlertRows, AlertInputs)
  \/ TempleOverview
  \/ PilgrimInfo
  \/ ExportRecords
  \/ RecentLogs
  \/ CrowdAlerts
  \/ AlertSend

SpecAlerts == InitAlerts /\ [][NextAlerts]_vars

(***************************************************************************)
(* Several browser sessions: Streamlit runs each session's script in a     *)
(* thread of its own, and lines 73-87 of two runs interleave.  The code    *)
(* takes no lock.  save_data is taken as one step: a run that reads the    *)
(* file while another is writing it is not modelled.                       *)
(***************************************************************************)
ConcInputs == {f \in FormInputs : f.zone \in {"", "Exit"}}

\* Line 73: data = load_data()
SessLoad(s) ==
  /\ spc[s] = "idle"
  /\ clock + Cardinality({t \in Sessions : spc[t] = "loaded"}) < MaxConcSubmits
  /\ \E form \in ConcInputs :
       sframe' = [sframe EXCEPT ![s] = [form |-> form, data |-> load_data(file),
                                       updated |-> EmptyFrame, tick |-> 0]]
  /\ spc' = [spc EXCEPT ![s] = "loaded"]
  /\ UNCHANGED <<file, clock, reported, single>>

\* Lines 74-85: new_entry, with datetime.now(), and pd.concat
SessConcat(s) ==
  /\ spc[s] = "loaded"
  /\ clock' = clock + 1
  /\ sframe' = [sframe EXCEPT ![s].tick = clock + 1,
                              ![s].updated = concat(sframe[s].data,
                                                    new_entry(sframe[s].form, clock + 1))]
  /\ spc' = [spc EXCEPT ![s] = "concatenated"]
  /\ UNCHANGED <<file, reported, single>>

\* Lines 86-88: save_data(updated_data), st.success, st.experimental_rerun()
SessSave(s) ==
  /\ spc[s] = "concatenated"
  /\ file' = save_data(sframe[s].updated)
  /\ reported' = reported \cup {sframe[s].tick}
  /\ sframe' = [sframe EXCEPT ![s] = NoFrame]
  /\ spc' = [spc EXCEPT ![s] = "idle"]
  /\ UNCHANGED <<clock, single>>

NextConc ==
  \E s \in Sessions :
    \/ SessLoad(s)
    \/ SessConcat(s)
    \/ SessSave(s)

SpecConc == Init /\ [][NextConc]_vars
(***************************************************************************)
(* The store as the claims speak of it: the records are the file's lines.  *)
(***************************************************************************)
Field(f, line, c) == line[ColIndex(f.header, c)]

IsSubmission == pc = "run" /\ pc' = "rerun"

LinesOfTemple(f, temple) ==
  IF f.state # "csv" THEN <<>>
  ELSE SelectSeq(f.lines, LAMBDA l : Field(f, l, "temple") = temple)

RECURSIVE SumField(_, _, _)
SumField(f, lines, c) ==
  IF lines = <<>> THEN 0
  ELSE NumOf(Field(f, lines[1], c)) + SumField(f, Tail(lines), c)

Abs(x) == IF x < 0 THEN -x ELSE x

\* The send attempts of the Crowd Alerts run on the screen, for store row i.
Attempts(i) == Cardinality({k \in 1..Len(view.outcomes) : view.outcomes[k].row = i})

AlertsShown == view.kind = "alerts"

RECURSIVE Ascending(_)
Ascending(S) ==
  IF S = {} THEN <<>>
  ELSE LET m == CHOOSE x \in S : \A y \in S : x <= y
       IN  <<m>> \o Ascending(S \ {m})

(***************************************************************************)
(* C1.  A submission raises the number of stored rows by exactly one,      *)
(* whatever the store held before (no file counts as no rows).             *)
(***************************************************************************)
C1_RowCountPlusOne ==
  [][IsSubmission => RowCount(file') = RowCount(file) + 1]_vars

C1_Witness == pc = "rerun" /\ RowCount(file) = 3

(***************************************************************************)
(* C2 as claimed.  The store is append-only: a submission keeps every      *)
(* stored line, text for text and in order, and puts the submitted record  *)
(* last; no other step changes the file.                                   *)
(***************************************************************************)
C2_AppendOnly ==
  [][IF IsSubmission
     THEN /\ RowCount(file') = RowCount(file) + 1
          /\ SubSeq(file'.lines, 1, RowCount(file)) = file.lines
          /\ file'.lines[RowCount(file')] = to_csv(new_entry(view'.form, clock')).lines[1]
     ELSE file' = file]_vars

(***************************************************************************)
(* C3 as claimed.  Once every session's submission is over, the store      *)
(* holds one record for each submission that reported success.             *)
(***************************************************************************)
C3_FullHistory ==
  (\A s \in Sessions : spc[s] = "idle") =>
     \A t \in reported :
        Cardinality({i \in 1..RowCount(file) :
                       Field(file, file.lines[i], "timestamp") = TimeText(t)}) = 1

(***************************************************************************)
(* C4 as claimed.  The overview's two averages equal the arithmetic mean   *)
(* over the stored records of the selected temple.                         *)
(***************************************************************************)
C4_ExactMean ==
  (pc = "idle" /\ view.kind = "overview") =>
     LET of == LinesOfTemple(file, view.temple) IN
     of # <<>> =>
        /\ ~view.crowd.nan
        /\ ~view.queue.nan
        /\ view.crowd.hundredths * Len(of) = 100 * SumField(file, of, "crowd_index")
        /\ view.queue.hundredths * Len(of) = 100 * SumField(file, of, "queue_time")

(***************************************************************************)
(* C4 as amended.  The overview's two averages are the arithmetic mean     *)
(* over exactly the stored records of the selected temple, rounded to two  *)
(* decimals (at most half a hundredth off); with no such record both are   *)
(* NaN.                                                                    *)
(***************************************************************************)
C4_RoundedMean ==
  (pc = "idle" /\ view.kind = "overview") =>
     LET of == LinesOfTemple(file, view.temple)
         near(m, c) == /\ ~m.nan
                       /\ 2 * Abs(m.hundredths * Len(of) - 100 * SumField(file, of, c))
                            <= Len(of)
     IN  IF of = <<>> THEN view.crowd.nan /\ view.queue.nan
         ELSE near(view.crowd, "crowd_index") /\ near(view.queue, "queue_time")

C4_Witness ==
  /\ pc = "idle"
  /\ view.kind = "overview"
  /\ Len(LinesOfTemple(file, view.temple)) = 3
  /\ RowCount(file) = 4
  /\ (100 * SumField(file, LinesOfTemple(file, view.temple), "crowd_index")) % 3 # 0

(***************************************************************************)
(* C5.  Starting from no store, every stored record has one of the four    *)
(* temples, a visitor count >= 0, a queue time >= 0 and a crowd index that *)
(* is an integer in 0..10.                                                 *)
(***************************************************************************)
C5_WellFormed ==
  file.state = "csv" =>
     /\ file.header = COLUMNS
     /\ \A i \in 1..RowCount(file) :
          LET at(c) == Field(file, file.lines[i], c) IN
          /\ at("temple") \in {"Somnath", "Dwarka", "Ambaji", "Pavagadh"}
          /\ at("visitor_count") \in IntTexts /\ NumOf(at("visitor_count")) >= 0
          /\ at("queue_time") \in IntTexts /\ NumOf(at("queue_time")) >= 0
          /\ at("crowd_index") \in IntTexts /\ NumOf(at("crowd_index")) \in 0..10

C5_Witness ==
  /\ pc = "rerun"
  /\ RowCount(file) = 3
  /\ \E i, j \in 1..3 : /\ Field(file, file.lines[i], "crowd_index") = "10"
                        /\ Field(file, file.lines[j], "visitor_count") = "0"

(***************************************************************************)
(* C6.  A Crowd Alerts run over at least 10 stored records fits the model  *)
(* once, over the three numeric columns of all stored records, and by its  *)
(* end has attempted exactly one email for each flagged record and none    *)
(* for any other - also for a record an earlier run already alerted.       *)
(***************************************************************************)
C6_OneAttemptPerFlagged ==
  (AlertsShown /\ RowCount(file) >= 10) =>
     /\ view.fits = 1
     /\ view.features =
          [i \in 1..RowCount(file) |->
             <<IntCell(NumOf(Field(file, file.lines[i], "visitor_count"))),
               IntCell(NumOf(Field(file, file.lines[i], "queue_time"))),
               IntCell(NumOf(Field(file, file.lines[i], "crowd_index")))>>]
     /\ \A i \in 1..RowCount(file) :
          /\ i \notin view.flagged => Attempts(i) = 0
          /\ i \in view.flagged => Attempts(i) <= 1
          /\ (i \in view.flagged /\ pc = "idle") => Attempts(i) = 1

C6_Witness ==
  /\ AlertsShown
  /\ pc = "idle"
  /\ lastAlert \in view.flagged
  /\ Attempts(lastAlert) = 1
  /\ Cardinality(view.flagged) = 2

(***************************************************************************)
(* C7 as claimed.  The export holds the records of the store, all columns, *)
(* in store order, and nothing else - as CSV and as Excel sheet.           *)
(***************************************************************************)
C7_ExportIsStore ==
  (pc = "idle" /\ view.kind = "export") =>
     IF view.format = "CSV"
     THEN /\ view.csv.header = COLUMNS
          /\ view.csv.lines = file.lines
     ELSE /\ view.sheet.header = COLUMNS
          /\ Len(view.sheet.cells) = RowCount(file)
          /\ \A i \in 1..RowCount(file) : \A j \in 1..Len(COLUMNS) :
               CellText(view.sheet.cells[i][j]) = file.lines[i][j]

(***************************************************************************)
(* C8.  With fewer than 10 stored records a Crowd Alerts run fits nothing, *)
(* flags nothing, sends nothing and shows the warning; with exactly 10 the *)
(* model is fitted.                                                        *)
(***************************************************************************)
C8_Threshold ==
  AlertsShown =>
     /\ RowCount(file) < 10 =>
          /\ view.warning
          /\ view.fits = 0
          /\ view.flagged = {}
          /\ view.outcomes = <<>>
          /\ pc = "idle"
     /\ RowCount(file) = 10 => (view.fits = 1 /\ ~view.warning)

C8_Witness == AlertsShown /\ RowCount(file) = 9 /\ view.warning /\ pc = "idle"

(***************************************************************************)
(* C9.  Each send is one SMTP attempt, a failure is reported and the loop  *)
(* goes on: the rows attempted so far and the rows still to visit are      *)
(* together the flagged rows, in order, whatever the attempts' outcomes.   *)
(***************************************************************************)
C9_FailureDoesNotStop ==
  AlertsShown =>
     /\ \A k \in 1..Len(view.outcomes) :
          /\ view.outcomes[k].smtp = 1
          /\ view.outcomes[k].message \in
               {"Alert dispatched to temple authorities.", "Failed to send alert"}
     /\ [k \in 1..Len(view.outcomes) |-> view.outcomes[k].row]
          \o (IF pc = "alerting" THEN todo ELSE <<>>)
        = Ascending(view.flagged)

C9_Witness ==
  /\ AlertsShown
  /\ pc = "idle"
  /\ Len(view.outcomes) = 2
  /\ view.outcomes[1].message = "Failed to send alert"
  /\ view.outcomes[2].message = "Alert dispatched to temple authorities."

(***************************************************************************)
(* C10.  Only a submission writes the store: every other step - the five   *)
(* other pages, the form drawn without a submission, each turn of the      *)
(* alert loop, failed or not - leaves the file as it is.                   *)
(***************************************************************************)
C10_OnlySubmitWrites ==
  [][IsSubmission \/ file' = file]_vars

C10_Witness ==
  /\ pc = "alerting"
  /\ "anomaly" \in Range(data.columns)
  /\ "anomaly" \notin Range(file.header)
  /\ \E k \in 1..Len(view.outcomes) : view.outcomes[k].message = "Failed to send alert"
====
